---- MODULE Spec2Model ----
(***************************************************************************)
(* Host-application side of the H5P integration kit: the content registry  *)
(* (table h5p_content), the grade store (table h5p_grades), the editor      *)
(* callback and the score webhook, as implemented by the PHP example        *)
(* (src/unnamed/part_006) and the .NET example (src/unnamed/part_004).      *)
(*                                                                         *)
(* Every HTTP request is a process with its own position (pc).  The steps   *)
(* of a request that touch the shared SQLite database are separate          *)
(* actions, one per SQL statement, so that concurrent requests interleave   *)
(* at statement granularity.                                                *)
(***************************************************************************)
EXTENDS Integers, Sequences, FiniteSets, TLC

\* ------------------------------------------------------------------ bounds
MaxReq == 2      \* requests that arrive in one behaviour
MaxClock == 1    \* seconds the wall clock may advance (CURRENT_TIMESTAMP)

Slots == 1..MaxReq

\* ------------------------------------------------------------ input values
Impls == {"php", "dotnet"}
\* "OPTIONS" stands for a CORS preflight: OPTIONS with the Origin and
\* Access-Control-Request-Method headers, as a browser sends it ahead of a
\* cross-origin POST of application/json.
Methods == {"POST", "GET", "OPTIONS"}
ContentIds == {"a", "b"}
Titles == {"Quiz A"}
UserIds == {"u1"}

\* An optional JSON / query field: <<>> when absent, <<v>> when present.
None == <<>>
Some(v) == <<v>>
Opt(S) == {None} \cup {Some(v) : v \in S}

\* JSON values a score field may carry: a number, or a value that is not a
\* number (an array).
Num(n) == [t |-> "num", v |-> n]
NonNumeric == [t |-> "array", v |-> 0]
RawInputs == {Num(1), NonNumeric}
MaxInputs == {Num(0)}

\* The request body of a webhook: text that is not JSON, the JSON literal
\* null, or a JSON object with the optional members of the payload.
NoFields ==
    [contentId |-> None, userId |-> None, raw |-> None, max |-> None,
     completion |-> None, verb |-> None]
EmptyObject == [kind |-> "object"] @@ NoFields
NoBody == [kind |-> "none"] @@ NoFields
MalformedBody == [kind |-> "malformed"] @@ NoFields
NullBody == [kind |-> "null"] @@ NoFields
ObjectBodies(U, R, M, C, V) ==
    [kind : {"object"}, contentId : Opt(ContentIds), userId : U, raw : R, max : M,
     completion : C, verb : V]
\* The bodies the requests of Spec carry.
Bodies ==
    {MalformedBody, NullBody}
        \cup ObjectBodies(Opt(UserIds), Opt(RawInputs), {None}, {None}, {None})

VARIABLES
    impl,        \* which host application is deployed
    clock,       \* the database's CURRENT_TIMESTAMP, in seconds
    content,     \* table h5p_content, in insertion order
    grades,      \* table h5p_grades, in insertion order
    reqs,        \* per request: kind, position, inputs, locals
    resp,        \* per request: the HTTP response sent, if any
    h5p          \* the H5P server process, its content store, and the browser

vars == <<impl, clock, content, grades, reqs, resp, h5p>>
\* the host application's part of the state
hostVars == <<impl, clock, content, grades, reqs, resp>>

\* No answer of the H5P server's editor routes yet.
NoAnswer ==
    [route |-> "", status |-> 0, success |-> FALSE, contentId |-> None,
     redirect |-> None, savedAs |-> None, returnUrl |-> None]
\* The H5P server process as `node src/index.js` begins: nothing of start()
\* has run, `let h5pEditor; let h5pPlayer;` are undefined, the content
\* store is what storage holds, no browser page is open.
H5pBoot ==
    [pc |-> 1, done |-> <<>>, failed |-> "", listening |-> FALSE, exitCode |-> 0,
     editor |-> FALSE, undefinedUse |-> FALSE,
     store |-> {}, saves |-> 0, answer |-> NoAnswer,
     page |-> None, events |-> 0, last |-> None,
     posts |-> <<>>, msgs |-> <<>>, received |-> <<>>]

\* ------------------------------------------------------------- responses
NoScore == [num |-> 0, den |-> 1]
NoResp ==
    [status |-> 0, kind |-> "none", error |-> "", contentId |-> "", score |-> NoScore,
     title |-> "", rows |-> <<>>]
\* json_encode(['error' => msg]) / Results.BadRequest(new { error = msg })
JsonError(status, msg) == [NoResp EXCEPT !.status = status, !.kind = "json-error", !.error = msg]
\* {"status":"saved","contentId":...,"score":...}
Saved(cid, score) ==
    [NoResp EXCEPT !.status = 200, !.kind = "json-saved", !.contentId = cid, !.score = score]
\* the "Content saved!" page of the callback
SavedPage == [NoResp EXCEPT !.status = 200, !.kind = "html"]
\* An HTML page with a heading and the rows it lists.
Page(title, rows) == [NoResp EXCEPT !.status = 200, !.kind = "html", !.title = title, !.rows = rows]
\* header('Location: ...') / Results.Redirect(...), to the editor of id
\* ("" for the editor of new content)
Redirect(id) == [NoResp EXCEPT !.status = 302, !.kind = "redirect", !.contentId = id]
\* An answer the ASP.NET pipeline gives without running the handler, with an
\* empty body: 405 from endpoint routing for a route that matches the path
\* but not the method, 204 from the CORS middleware for a preflight.
FrameworkStatus(status) == [NoResp EXCEPT !.status = status, !.kind = "empty"]
\* An exception nobody catches: the PHP runtime (display_errors off) / the
\* ASP.NET pipeline ends the request with a 500 and an error page naming
\* the exception; no JSON body is produced.
Unhandled(exception) ==
    [NoResp EXCEPT !.status = 500, !.kind = "error-page", !.error = exception]
StorageError == "storage failure"
UniqueViolation == "UNIQUE constraint failed: h5p_content.h5p_id"
JsonException == "JsonException"
OperandError == "Unsupported operand types"
ArgumentTypeError == "TypeError"

\* ------------------------------------------------------------- requests
IdleReq ==
    [kind |-> "none", pc |-> "idle", method |-> "", body |-> NoBody,
     qid |-> None, qtitle |-> None, contentRef |-> 0, rowId |-> 0]
\* A request whose response has been sent: its inputs are gone, the id of
\* the row it inserted (the connection's last insert rowid) is remembered.
Closed(kind, pc, rowId) == [IdleReq EXCEPT !.kind = kind, !.pc = pc, !.rowId = rowId]

Terminal == {"Acknowledged", "Rejected", "Failed", "Done"}

\* ---------------------------------------------------- payload extraction
\* the method is not looked at
AnyMethod(method) == TRUE
\* $_SERVER['REQUEST_METHOD'] !== 'POST'  /  app.MapPost
IsPost(method) == method = "POST"

\* PHP: json_decode gives null for text that is not JSON; null, and an
\* empty array, are falsy; isset() is false for a missing member.
PhpInvalidPayload(body) ==
    \/ body.kind # "object"
    \/ body = EmptyObject
    \/ body.contentId = None

\* .NET: JsonSerializer.Deserialize<WebhookPayload> throws JsonException on
\* text that is not JSON and on a member whose JSON type does not fit the
\* record (score.raw is a double).
DeserializeThrows(body) ==
    \/ body.kind = "malformed"
    \/ (body.raw # None /\ body.raw[1].t # "num")
    \/ (body.max # None /\ body.max[1].t # "num")
\* data == null || string.IsNullOrEmpty(data.ContentId)
DotnetInvalidPayload(body) ==
    \/ body.kind = "null"
    \/ body.contentId = None
    \/ body.contentId = Some("")

OrElse(opt, default) == IF opt = None THEN default ELSE opt[1]
UserIdOf(body) == OrElse(body.userId, "anonymous")
RawScoreOf(body) == OrElse(body.raw, Num(0))
MaxScoreOf(body) == OrElse(body.max, Num(100))

CompletedOf(body) == OrElse(body.completion, FALSE)
\* A verb id is held as its pieces between the '/' characters.
RECURSIVE Basename(_)
\* basename(): trailing slashes are dropped, the last piece is returned
Basename(uri) ==
    IF uri = <<>> THEN ""
    ELSE IF uri[Len(uri)] # "" THEN uri[Len(uri)]
    ELSE Basename(SubSeq(uri, 1, Len(uri) - 1))
\* Split('/').LastOrDefault()
SplitLast(uri) == IF uri = <<>> THEN "" ELSE uri[Len(uri)]
\* the first piece is taken instead of the last
VerbFirst(im, body) == IF body.verb = None THEN "" ELSE body.verb[1][1]
VerbOf(im, body) ==
    IF body.verb = None THEN ""
    ELSE IF im = "php" THEN Basename(body.verb[1]) ELSE SplitLast(body.verb[1])

\* The outcome of the steps before the database is touched.
Pass == [ok |-> TRUE, pc |-> "Validated", resp |-> NoResp]
Stop(pc, r) == [ok |-> FALSE, pc |-> pc, resp |-> r]
PhpValidate(method, body) ==
    IF ~IsPost(method) THEN Stop("Rejected", JsonError(405, "Method not allowed"))
    ELSE IF PhpInvalidPayload(body) THEN Stop("Rejected", JsonError(400, "Invalid payload"))
    ELSE Pass
\* app.UseCors(policy => policy.AllowAnyOrigin().AllowAnyMethod()
\* .AllowAnyHeader()): the middleware answers every preflight itself.
IsPreflight(method) == method = "OPTIONS"
DotnetValidate(method, body) ==
    IF IsPreflight(method) THEN Stop("Done", FrameworkStatus(204))
    ELSE IF ~IsPost(method) THEN Stop("Rejected", FrameworkStatus(405))
    ELSE IF DeserializeThrows(body) THEN Stop("Failed", Unhandled(JsonException))
    ELSE IF DotnetInvalidPayload(body) THEN Stop("Rejected", JsonError(400, "Invalid payload"))
    ELSE Pass
Validate(im, method, body) ==
    IF im = "php" THEN PhpValidate(method, body) ELSE DotnetValidate(method, body)

\* 'score' => $maxScore > 0 ? $rawScore / $maxScore : 0.  The division
\* raises "Unsupported operand types" when an operand is an array.
\* An array compares greater than any number.
ScoreThrows(raw, max) == IF max.t = "num" THEN max.v > 0 /\ raw.t # "num" ELSE TRUE
\* the score as a percentage, 0..100
ScorePercent(raw, max) == IF max.v > 0 THEN [num |-> 100 * raw.v, den |-> max.v] ELSE NoScore
Score(raw, max) == IF max.v > 0 THEN [num |-> raw.v, den |-> max.v] ELSE NoScore

\* --------------------------------------------------------------- database
\* INTEGER PRIMARY KEY AUTOINCREMENT; no statement of the program deletes.
NextRowId(tbl) == IF tbl = <<>> THEN 1 ELSE tbl[Len(tbl)].id + 1

Rows(tbl, h5pId) == {i \in 1..Len(tbl) : tbl[i].h5p_id = h5pId}

\* SELECT id FROM h5p_content WHERE h5p_id = ?   (0: no row)
\* the WHERE clause is missing
SelectAnyId(tbl, h5pId) == IF tbl = <<>> THEN 0 ELSE tbl[1].id
SelectId(tbl, h5pId) ==
    IF Rows(tbl, h5pId) = {} THEN 0 ELSE tbl[CHOOSE i \in Rows(tbl, h5pId) : TRUE].id

\* $content = $stmt->fetch(PDO::FETCH_ASSOC); $content['id']
PhpResolve(tbl, h5pId) == SelectId(tbl, h5pId)
\* contentDbId = cmd.ExecuteScalar() as int?  -- Microsoft.Data.Sqlite hands
\* an INTEGER column back as a boxed Int64, and "as int?" of a boxed Int64
\* is null.
ScalarType == "Int64"
AsNullableInt(type, v) == IF type = "Int32" THEN v ELSE 0
DotnetResolve(tbl, h5pId) == AsNullableInt(ScalarType, SelectId(tbl, h5pId))
Resolve(im, tbl, h5pId) ==
    IF im = "php" THEN PhpResolve(tbl, h5pId) ELSE DotnetResolve(tbl, h5pId)

\* The outcome of a statement on h5p_content: the table afterwards, or the
\* constraint the statement violated (PDO::ERRMODE_EXCEPTION raises it).
Applied(tbl) == [ok |-> TRUE, tbl |-> tbl]
Raised(tbl) == [ok |-> FALSE, tbl |-> tbl]
NewContent(tbl, h5pId, title, now) ==
    [id |-> NextRowId(tbl), h5p_id |-> h5pId, title |-> title, created_at |-> now]

\* a plain INSERT: the UNIQUE constraint on h5p_id rejects a known id
PlainInsertContent(tbl, h5pId, title, now) ==
    IF Rows(tbl, h5pId) # {} THEN Raised(tbl)
    ELSE Applied(Append(tbl, NewContent(tbl, h5pId, title, now)))
\* INSERT ... ON CONFLICT(h5p_id) DO NOTHING
InsertOrIgnoreContent(tbl, h5pId, title, now) ==
    IF Rows(tbl, h5pId) # {} THEN Applied(tbl)
    ELSE Applied(Append(tbl, NewContent(tbl, h5pId, title, now)))
\* the update of the known row has lost its WHERE: every row is renamed
UpsertRenameAll(tbl, h5pId, title, now) ==
    IF Rows(tbl, h5pId) # {}
    THEN Applied([i \in 1..Len(tbl) |-> [tbl[i] EXCEPT !.title = title]])
    ELSE Applied(Append(tbl, NewContent(tbl, h5pId, title, now)))
\* INSERT OR REPLACE: the known row is deleted and a new one, with a new id
\* and a new created_at, is inserted
ReplaceContent(tbl, h5pId, title, now) ==
    LET kept == SelectSeq(tbl, LAMBDA c : c.h5p_id # h5pId)
    IN  Applied(Append(kept, NewContent(tbl, h5pId, title, now)))
\* ... DO UPDATE SET title = excluded.title, created_at = CURRENT_TIMESTAMP
UpsertTouchContent(tbl, h5pId, title, now) ==
    IF Rows(tbl, h5pId) # {}
    THEN Applied([i \in 1..Len(tbl) |->
                 IF tbl[i].h5p_id = h5pId
                 THEN [tbl[i] EXCEPT !.title = title, !.created_at = now] ELSE tbl[i]])
    ELSE Applied(Append(tbl, NewContent(tbl, h5pId, title, now)))
\* INSERT INTO h5p_content (h5p_id, title) VALUES (?, ?)
\* ON CONFLICT(h5p_id) DO UPDATE SET title = excluded.title
UpsertContent(tbl, h5pId, title, now) ==
    IF Rows(tbl, h5pId) # {}
    THEN Applied([i \in 1..Len(tbl) |->
                 IF tbl[i].h5p_id = h5pId THEN [tbl[i] EXCEPT !.title = title] ELSE tbl[i]])
    ELSE Applied(Append(tbl, NewContent(tbl, h5pId, title, now)))

\* A bound parameter that is an array is stored as the text "Array".
Bound(v) == IF v.t = "num" THEN v ELSE [t |-> "text", v |-> 0]
GradeRow(id, contentRef, userId, raw, max, completed, verb, now) ==
    [id |-> id, content_id |-> contentRef, user_id |-> userId, score |-> Bound(raw),
     max_score |-> Bound(max), completed |-> IF completed THEN 1 ELSE 0,
     xapi_verb |-> verb, created_at |-> now]
SameGrade(g, h) == [g EXCEPT !.id = 0, !.created_at = 0] = [h EXCEPT !.id = 0, !.created_at = 0]
\* INSERT INTO h5p_grades (content_id, user_id, score, max_score, completed,
\* xapi_verb) VALUES (?, ?, ?, ?, ?, ?)
\* INSERT OR REPLACE keyed on the values: an equal row is overwritten
ReplaceGrade(tbl, contentRef, userId, raw, max, completed, verb, now) ==
    LET new == GradeRow(NextRowId(tbl), contentRef, userId, raw, max, completed, verb, now)
        old == {i \in 1..Len(tbl) : SameGrade(tbl[i], new)}
    IN  IF old = {} THEN Append(tbl, new)
        ELSE [i \in 1..Len(tbl) |-> IF i \in old THEN [new EXCEPT !.id = tbl[i].id] ELSE tbl[i]]
\* an upsert keyed on (content_id, user_id): the pair's row is updated in
\* place and keeps its id
UpsertGrade(tbl, contentRef, userId, raw, max, completed, verb, now) ==
    LET new == GradeRow(NextRowId(tbl), contentRef, userId, raw, max, completed, verb, now)
        old == {i \in 1..Len(tbl) : tbl[i].content_id = contentRef /\ tbl[i].user_id = userId}
    IN  IF old = {} THEN Append(tbl, new)
        ELSE [i \in 1..Len(tbl) |-> IF i \in old THEN [new EXCEPT !.id = tbl[i].id] ELSE tbl[i]]
\* only the latest grade of a (content, user) pair is kept
InsertLatestGrade(tbl, contentRef, userId, raw, max, completed, verb, now) ==
    LET new == GradeRow(NextRowId(tbl), contentRef, userId, raw, max, completed, verb, now)
        kept == SelectSeq(tbl, LAMBDA g : ~(g.content_id = contentRef /\ g.user_id = userId))
    IN  Append(kept, new)
\* the statement is prepared and never takes effect
InsertGradeLost(tbl, contentRef, userId, raw, max, completed, verb, now) == tbl
InsertGrade(tbl, contentRef, userId, raw, max, completed, verb, now) ==
    Append(tbl, GradeRow(NextRowId(tbl), contentRef, userId, raw, max, completed, verb, now))

\* ------------------------------------------------------------------ Init
\* The database file outlives the process (CREATE TABLE IF NOT EXISTS): the
\* application starts on an empty registry or on one filled by an earlier
\* run, at second 0; this run starts at second 1.
StoredContent ==
    {<<>>, <<[id |-> 1, h5p_id |-> "a", title |-> "Quiz A", created_at |-> 0]>>}

Init ==
    /\ impl \in Impls
    /\ clock = 1
    /\ content \in StoredContent
    /\ grades = <<>>
    /\ reqs = [r \in Slots |-> IdleReq]
    /\ resp = [r \in Slots |-> NoResp]
    /\ h5p = H5pBoot

\* --------------------------------------------------------------- actions
CanArrive(r) == reqs[r].pc = "idle" /\ (IF r = 1 THEN TRUE ELSE reqs[r - 1].pc # "idle")

\* A POST/GET to ?action=webhook (/webhook) arrives.  What handleWebhook does
\* before its first database call reads nothing shared, so it is taken to
\* run as soon as the request is in: the next webhook arrives after that.
ReceiveWebhook(r) ==
    /\ CanArrive(r)
    /\ \A o \in Slots : ~(reqs[o].kind = "webhook" /\ reqs[o].pc = "Received")
    /\ \E m \in Methods, b \in Bodies :
          reqs' = [reqs EXCEPT ![r] = [IdleReq EXCEPT !.kind = "webhook", !.pc = "Received",
                                                      !.method = m, !.body = b]]
    /\ UNCHANGED <<h5p, impl, clock, content, grades, resp>>

\* The editor redirects the browser to ?action=callback (/callback).
ReceiveCallback(r) ==
    /\ CanArrive(r)
    /\ \E c \in Opt(ContentIds), t \in Opt(Titles) :
          reqs' = [reqs EXCEPT ![r] = [IdleReq EXCEPT !.kind = "callback", !.pc = "Received",
                                                      !.method = "GET", !.qid = c, !.qtitle = t]]
    /\ UNCHANGED <<h5p, impl, clock, content, grades, resp>>

Finish(r, kind, pc, rowId, response) ==
    /\ reqs' = [reqs EXCEPT ![r] = Closed(kind, pc, rowId)]
    /\ resp' = [resp EXCEPT ![r] = response]

\* handleWebhook up to the first database call: method check, json_decode,
\* validation, defaults.
WebhookValidate(r) ==
    /\ reqs[r].kind = "webhook" /\ reqs[r].pc = "Received"
    /\ LET out == Validate(impl, reqs[r].method, reqs[r].body)
       IN  IF out.ok
           THEN reqs' = [reqs EXCEPT ![r].pc = "Validated"] /\ UNCHANGED resp
           ELSE Finish(r, "webhook", out.pc, 0, out.resp)
    /\ UNCHANGED <<h5p, impl, clock, content, grades>>

\* getDb() and the SELECT that looks the content up.  Opening the database
\* or running the statement may raise (PDOException / SqliteException).
WebhookResolve(r) ==
    /\ reqs[r].kind = "webhook" /\ reqs[r].pc = "Validated"
    /\ \E storageOk \in BOOLEAN :
          LET id == Resolve(impl, content, reqs[r].body.contentId[1])
          IN  IF ~storageOk THEN Finish(r, "webhook", "Failed", 0, Unhandled(StorageError))
              ELSE IF id = 0
              THEN Finish(r, "webhook", "Rejected", 0, JsonError(404, "Content not found"))
              ELSE reqs' = [reqs EXCEPT ![r].pc = "Resolved", ![r].contentRef = id]
                   /\ UNCHANGED resp
    /\ UNCHANGED <<h5p, impl, clock, content, grades>>

\* The INSERT into h5p_grades; it may raise.
WebhookPersist(r) ==
    /\ reqs[r].kind = "webhook" /\ reqs[r].pc = "Resolved"
    /\ \E storageOk \in BOOLEAN :
          IF storageOk
          THEN /\ grades' = InsertGrade(grades, reqs[r].contentRef, UserIdOf(reqs[r].body),
                                        RawScoreOf(reqs[r].body), MaxScoreOf(reqs[r].body),
                                        CompletedOf(reqs[r].body),
                                        VerbOf(impl, reqs[r].body), clock)
               /\ reqs' = [reqs EXCEPT ![r].pc = "Persisted", ![r].rowId = NextRowId(grades)]
               /\ UNCHANGED resp
          ELSE /\ Finish(r, "webhook", "Failed", 0, Unhandled(StorageError))
               /\ UNCHANGED grades
    /\ UNCHANGED <<h5p, impl, clock, content>>

\* echo json_encode([...'score' => ...]) / return Results.Ok(...)
WebhookAcknowledge(r) ==
    /\ reqs[r].kind = "webhook" /\ reqs[r].pc = "Persisted"
    /\ LET raw == RawScoreOf(reqs[r].body)
           max == MaxScoreOf(reqs[r].body)
       IN  IF impl = "php" /\ ScoreThrows(raw, max)
           THEN Finish(r, "webhook", "Failed", reqs[r].rowId, Unhandled(OperandError))
           ELSE Finish(r, "webhook", "Acknowledged", reqs[r].rowId,
                       Saved(reqs[r].body.contentId[1], Score(raw, max)))
    /\ UNCHANGED <<h5p, impl, clock, content, grades>>

\* the default is the empty string
TitleParamEmpty(qtitle) == OrElse(qtitle, "")
\* $title = $_GET['title'] ?? 'Untitled'  /  title ?? "Untitled"
TitleParam(qtitle) == OrElse(qtitle, "Untitled")

\* isset($_GET['contentId']): an empty contentId passes
HasContentIdParam(im, qid) == qid # None
\* if ($contentId): null, "" and "0" are falsy
\* !string.IsNullOrEmpty(contentId)
HasContentId(im, qid) ==
    /\ qid # None
    /\ qid # Some("")
    /\ im = "php" => qid # Some("0")

\* handleCallback: one upsert statement, then the "saved" page.  The
\* statement may raise.
CallbackRegister(r) ==
    /\ reqs[r].kind = "callback" /\ reqs[r].pc = "Received"
    /\ \E storageOk \in BOOLEAN :
          LET out == UpsertContent(content, reqs[r].qid[1], TitleParam(reqs[r].qtitle), clock)
          IN  IF ~HasContentId(impl, reqs[r].qid)
              THEN Finish(r, "callback", "Done", 0, SavedPage) /\ UNCHANGED content
              ELSE IF ~storageOk
              THEN Finish(r, "callback", "Failed", 0, Unhandled(StorageError))
                   /\ UNCHANGED content
              ELSE IF ~out.ok
              THEN Finish(r, "callback", "Failed", 0, Unhandled(UniqueViolation))
                   /\ UNCHANGED content
              ELSE content' = out.tbl /\ Finish(r, "callback", "Done", 0, SavedPage)
    /\ UNCHANGED <<h5p, impl, clock, grades>>

\* A second passes.
Tick ==
    /\ clock < 1 + MaxClock
    /\ clock' = clock + 1
    /\ UNCHANGED <<h5p, impl, content, grades, reqs, resp>>

Next ==
    \/ \E r \in Slots : ReceiveWebhook(r)
    \/ \E r \in Slots : ReceiveCallback(r)
    \/ \E r \in Slots : WebhookValidate(r)
    \/ \E r \in Slots : WebhookResolve(r)
    \/ \E r \in Slots : WebhookPersist(r)
    \/ \E r \in Slots : WebhookAcknowledge(r)
    \/ \E r \in Slots : CallbackRegister(r)
    \/ Tick

Spec == Init /\ [][Next]_vars

\* ================================================= one request at a time
\* The host application with all its routes, on the database an earlier
\* run has left, handling one webhook delivery (slot 1) and one other
\* request (slot 2), one after the other in either order.  The delivery
\* carries the full payload: score, completion and verb.

\* statement.result.score.raw / .max
RawValues == {-1, 1, 2}
MaxValues == {-1, 0, 1}
\* statement.verb.id, as its pieces between the '/' characters:
\* "verbs/completed", "verbs/completed/", "completed", ""
VerbIds == {<<"verbs", "completed">>, <<"verbs", "completed", "">>, <<"completed">>, <<"">>}
Nums(S) == {Num(n) : n \in S}
\* payloads that differ in their score
ScoreBodies == ObjectBodies({Some("u1")}, Opt(Nums(RawValues)), Opt(Nums(MaxValues)), {None}, {None})
\* payloads that differ in which optional members they carry
PresenceBodies ==
    ObjectBodies(Opt({"u1"}), Opt({Num(1)}), Opt({Num(1)}), Opt({TRUE}),
                 Opt({<<"verbs", "completed">>}))
\* payloads that differ in their verb
VerbBodies == ObjectBodies({None}, {None}, {None}, {None}, Opt(VerbIds))
HostBodies == {MalformedBody} \cup ScoreBodies \cup PresenceBodies \cup VerbBodies

\* Rows of h5p_grades written by deliveries of an earlier run (PHP host).
StoredGrade(id, contentRef, raw, max) ==
    GradeRow(id, contentRef, "u1", Num(raw), Num(max), TRUE, "completed", 0)
\* The database files an earlier run can have left: the tables as pairs.
PhpStoredDb ==
    {<<c, <<>>>> : c \in StoredContent}
        \cup {<<c, g>> : c \in StoredContent \ {<<>>},
                         g \in {<<StoredGrade(1, 1, 1, 2)>>,
                                <<StoredGrade(1, 1, 1, 2), StoredGrade(2, 1, 2, 2)>>}}
        \cup {<< <<[id |-> 1, h5p_id |-> "a", title |-> "Quiz A", created_at |-> 0],
                   [id |-> 2, h5p_id |-> "b", title |-> "Untitled", created_at |-> 0]>>,
                 <<StoredGrade(1, 2, 2, 2), StoredGrade(2, 1, 1, 2)>> >>}
DotnetStoredDb == {<<c, <<>>>> : c \in StoredContent}

HostInit ==
    /\ impl \in Impls
    /\ clock = 1
    /\ \E db \in (IF impl = "php" THEN PhpStoredDb ELSE DotnetStoredDb) :
          content = db[1] /\ grades = db[2]
    /\ reqs = [r \in Slots |-> IdleReq]
    /\ resp = [r \in Slots |-> NoResp]
    /\ h5p = H5pBoot

NoneInFlight == \A o \in Slots : reqs[o].pc \in Terminal \cup {"idle"}
Pages == {"home", "create", "play", "edit", "grades"}

\* The H5P server posts an xAPI event to the webhook.
HostReceiveWebhook ==
    /\ reqs[1].pc = "idle" /\ NoneInFlight
    /\ \E b \in HostBodies :
          reqs' = [reqs EXCEPT ![1] = [IdleReq EXCEPT !.kind = "webhook", !.pc = "Received",
                                                      !.method = "POST", !.body = b]]
    /\ UNCHANGED <<h5p, impl, clock, content, grades, resp>>

HostReceiveCallback ==
    /\ reqs[2].pc = "idle" /\ NoneInFlight
    /\ \E c \in Opt(ContentIds) \cup {Some("")}, t \in Opt(Titles) :
          reqs' = [reqs EXCEPT ![2] = [IdleReq EXCEPT !.kind = "callback", !.pc = "Received",
                                                      !.method = "GET", !.qid = c,
                                                      !.qtitle = t]]
    /\ UNCHANGED <<h5p, impl, clock, content, grades, resp>>

\* A browser asks for a page: ?action=<page>&id=<id>  /  /<page>/<id>.
\* play and edit take an h5p_id, grades takes a content row id (0: none).
HostReceivePage ==
    /\ reqs[2].pc = "idle" /\ NoneInFlight
    /\ \E page \in Pages, h \in Opt({"a"}), n \in 0..2 :
          /\ page \in {"home", "create"} => h = None /\ n = 0
          /\ page \in {"play", "edit"} => n = 0
          /\ page = "grades" => h = None
          /\ reqs' = [reqs EXCEPT ![2] = [IdleReq EXCEPT !.kind = page, !.pc = "Received",
                                                         !.method = "GET", !.qid = h,
                                                         !.contentRef = n]]
    /\ UNCHANGED <<h5p, impl, clock, content, grades, resp>>

\* ORDER BY created_at DESC: rows of one second come in an order the
\* statement does not fix.
\* no ORDER BY clause: the rows come in rowid order
Unordered(tbl) == {tbl}
OrderByCreatedAtDesc(tbl) ==
    {[i \in 1..Len(tbl) |-> tbl[p[i]]] :
        p \in {q \in Permutations(1..Len(tbl)) :
                 \A i, j \in 1..Len(tbl) :
                     i < j => tbl[q[i]].created_at >= tbl[q[j]].created_at}}

\* showHome: SELECT * FROM h5p_content ORDER BY created_at DESC
ShowHome(r) ==
    /\ reqs[r].kind = "home" /\ reqs[r].pc = "Received"
    /\ \E list \in OrderByCreatedAtDesc(content) :
          Finish(r, "home", "Done", 0, Page("H5P Content Library", list))
    /\ UNCHANGED <<h5p, impl, clock, content, grades>>

\* redirectToEditor / MapGet /create, /edit/{h5pId}: a redirect to the H5P
\* server.  .NET has no route for /edit without an id.
RedirectToEditor(r) ==
    /\ reqs[r].kind \in {"create", "edit"} /\ reqs[r].pc = "Received"
    /\ IF reqs[r].kind = "edit" /\ reqs[r].qid = None /\ impl = "dotnet"
       THEN Finish(r, reqs[r].kind, "Rejected", 0, FrameworkStatus(404))
       ELSE Finish(r, reqs[r].kind, "Done", 0, Redirect(OrElse(reqs[r].qid, "")))
    /\ UNCHANGED <<h5p, impl, clock, content, grades>>

\* showPlayer(string $h5pId): without an id PHP raises a TypeError, .NET has
\* no matching route.
ShowPlayer(r) ==
    /\ reqs[r].kind = "play" /\ reqs[r].pc = "Received"
    /\ IF reqs[r].qid # None
       THEN Finish(r, "play", "Done", 0, [Page("H5P Player", <<>>) EXCEPT !.contentId = reqs[r].qid[1]])
       ELSE IF impl = "php"
       THEN Finish(r, "play", "Failed", 0, Unhandled(ArgumentTypeError))
       ELSE Finish(r, "play", "Rejected", 0, FrameworkStatus(404))
    /\ UNCHANGED <<h5p, impl, clock, content, grades>>

\* round(): halves away from zero.  den > 0.
RoundDiv(num, den) ==
    IF num >= 0 THEN (2 * num + den) \div (2 * den)
    ELSE 0 - ((2 * (0 - num) + den) \div (2 * den))
\* the guard tests for zero only
PercentNonZero(score, max) ==
    IF max.v # 0
    THEN (IF max.v > 0 THEN RoundDiv(100 * score.v, max.v)
          ELSE RoundDiv(0 - 100 * score.v, 0 - max.v))
    ELSE 0
\* $grade['max_score'] > 0 ? round($grade['score'] / $grade['max_score'] * 100) : 0
Percent(score, max) == IF max.v > 0 THEN RoundDiv(100 * score.v, max.v) ELSE 0
\* A column that holds text makes the arithmetic raise.
PercentThrows(score, max) == score.t # "num" \/ max.t # "num"
\* SELECT * FROM h5p_grades WHERE content_id = ?
SelectGrades(tbl, id) == SelectSeq(tbl, LAMBDA g : g.content_id = id)
\* SELECT * FROM h5p_content WHERE id = ?;  $content['title'] ?? 'Unknown'
TitleOf(tbl, id) ==
    LET found == SelectSeq(tbl, LAMBDA c : c.id = id)
    IN  IF found = <<>> THEN "Unknown" ELSE found[1].title
Listed(g) == [row |-> g, pct |-> Percent(g.score, g.max_score)]

\* showGrades(int $contentDbId) / MapGet /grades/{contentDbId:int}
ShowGrades(r) ==
    /\ reqs[r].kind = "grades" /\ reqs[r].pc = "Received"
    /\ LET id == reqs[r].contentRef
       IN  IF id = 0
           THEN (IF impl = "php"
                 THEN Finish(r, "grades", "Failed", 0, Unhandled(ArgumentTypeError))
                 ELSE Finish(r, "grades", "Rejected", 0, FrameworkStatus(404)))
           ELSE \E list \in OrderByCreatedAtDesc(SelectGrades(grades, id)) :
                   IF \E i \in 1..Len(list) : PercentThrows(list[i].score, list[i].max_score)
                   THEN Finish(r, "grades", "Failed", 0, Unhandled(OperandError))
                   ELSE Finish(r, "grades", "Done", 0,
                               Page(TitleOf(content, id),
                                    [i \in 1..Len(list) |-> Listed(list[i])]))
    /\ UNCHANGED <<h5p, impl, clock, content, grades>>

HostNext ==
    \/ HostReceiveWebhook
    \/ HostReceiveCallback
    \/ HostReceivePage
    \/ WebhookValidate(1)
    \/ WebhookResolve(1)
    \/ WebhookPersist(1)
    \/ WebhookAcknowledge(1)
    \/ CallbackRegister(2)
    \/ ShowHome(2)
    \/ RedirectToEditor(2)
    \/ ShowPlayer(2)
    \/ ShowGrades(2)
    \/ Tick

HostSpec == HostInit /\ [][HostNext]_vars

\* ============================================================ H5P server
\* Saves the editor may be asked for.
MaxSaves == 2

\* app.listen before the awaits
ListenFirst == <<"listen", "initH5P", "setupRoutes", "addErrorHandlers">>
\* start(): the awaited steps, in order.
StartOrder == <<"initH5P", "setupRoutes", "addErrorHandlers", "listen">>

Running == h5p.exitCode = 0
AtStep(name) == Running /\ h5p.pc <= Len(StartOrder) /\ StartOrder[h5p.pc] = name
\* the step returned: start() goes on to the next one
Advance(rec, name) == [rec EXCEPT !.pc = @ + 1, !.done = Append(@, name)]
\* catch (error) { console.error(...); process.exit(1) }
Exit(rec, name) == [rec EXCEPT !.exitCode = 1, !.failed = name]

\* initH5P: directories, configuration, then h5pEditor and h5pPlayer are
\* assigned; any of its awaits can reject.
InitH5P ==
    /\ AtStep("initH5P")
    /\ \E ok \in BOOLEAN :
          h5p' = IF ok THEN Advance([h5p EXCEPT !.editor = TRUE], "initH5P")
                       ELSE Exit(h5p, "initH5P")
    /\ UNCHANGED hostVars

\* setupRoutes: the dynamic import of h5p-express and the router mounts.
SetupRoutes ==
    /\ AtStep("setupRoutes")
    /\ \E ok \in BOOLEAN :
          h5p' = IF ok THEN Advance(h5p, "setupRoutes") ELSE Exit(h5p, "setupRoutes")
    /\ UNCHANGED hostVars

\* addErrorHandlers: two app.use calls.
AddErrorHandlers ==
    /\ AtStep("addErrorHandlers")
    /\ h5p' = Advance(h5p, "addErrorHandlers")
    /\ UNCHANGED hostVars

\* app.listen(PORT, ...): the socket is bound, or the 'error' event
\* (port in use) ends the process.
Listen ==
    /\ AtStep("listen")
    /\ \E bound \in BOOLEAN :
          h5p' = IF bound THEN Advance([h5p EXCEPT !.listening = TRUE], "listen")
                          ELSE Exit(h5p, "listen")
    /\ UNCHANGED hostVars

\* A request reaches a handler only through the listening socket.
Accepting == Running /\ h5p.listening

\* ------------------------------------------------------- editor requests
\* req.query.returnUrl: absent, an absolute URL, or a relative reference.
ReturnUrls == {None, Some([scheme |-> "http", path |-> "host/callback"]),
                     Some([scheme |-> "", path |-> "/callback"])}
\* new URL(returnUrl) throws TypeError unless the text has a scheme.
NewUrlThrows(returnUrl) == returnUrl.scheme = ""

\* The `params` form field: absent, text that is not JSON, or the JSON
\* object {"params":..., "metadata":...} whose metadata is absent (None),
\* has no title (Some(None)) or has a title.
NoParams == [kind |-> "absent", metadata |-> None]
BadJson == [kind |-> "malformed", metadata |-> None]
FullParams(metadata) == [kind |-> "object", metadata |-> metadata]
Metadatas == {None, Some(None), Some(Some("Quiz A"))}
Parameters == {NoParams, BadJson} \cup {FullParams(m) : m \in Metadatas}

\* fullParams.metadata || { title: 'Untitled' } : the title member, if any
MetadataOf(parameters) ==
    IF parameters.metadata = None THEN Some("Untitled") ELSE parameters.metadata[1]
\* { title: params.metadata?.title || 'Untitled', ...params.metadata }
ClientMetadata(metadata) ==
    IF metadata = None \/ metadata[1] = None THEN Some("Untitled") ELSE metadata[1]
\* url.searchParams.set('title', metadata.title): the value as a string
TitleText(title) == IF title = None THEN "undefined" ELSE title[1]

\* Ids of the content store.
StoredIds(store) == {c.id : c \in store}
\* h5pEditor.saveOrUpdateContentReturnMetaData(id, ...) returned: the
\* content is stored under id with the metadata given.
SaveContent(store, id, title) ==
    {c \in store : c.id # id} \cup {[id |-> id, title |-> title]}
\* h5pEditor.contentManager.deleteContent(id, user) returned.
RemoveContent(store, id) == {c \in store : c.id # id}

\* res.status(n).send(...) of an editor route
Answer(rec, route, status) ==
    [rec EXCEPT !.saves = @ + 1,
                !.answer = [NoAnswer EXCEPT !.route = route, !.status = status]]
\* the same after the save had returned
AnswerSaved(rec, route, status, id, title, returnUrl) ==
    [rec EXCEPT !.saves = @ + 1,
                !.store = SaveContent(@, id, title),
                !.answer = [NoAnswer EXCEPT !.route = route, !.status = status,
                                            !.savedAs = Some([id |-> id, title |-> title]),
                                            !.returnUrl = returnUrl]]
\* res.json({ success: true, contentId, redirectUrl })
AnswerRedirect(rec, route, id, title, returnUrl) ==
    [rec EXCEPT !.saves = @ + 1,
                !.store = SaveContent(@, id, title),
                !.answer = [route |-> route, status |-> 200, success |-> TRUE,
                            contentId |-> Some(id),
                            redirect |->
                                Some(IF returnUrl = None
                                     THEN [to |-> "editor", contentId |-> id, title |-> ""]
                                     ELSE [to |-> "returnUrl", contentId |-> id,
                                           title |-> TitleText(title)]),
                            savedAs |-> Some([id |-> id, title |-> title]),
                            returnUrl |-> returnUrl]]

\* The body of app.post('/new') and app.post('/edit/:contentId'): the 400
\* check, JSON.parse, the save, then the redirect URL.  `saved` is whether
\* the library's save returned (it can reject), id the id it saved under.
EditorPost(rec, route, id, library, parameters, returnUrl, saved) ==
    IF ~library \/ parameters.kind = "absent" THEN Answer(rec, route, 400)
    ELSE IF parameters.kind = "malformed" THEN Answer(rec, route, 500)
    ELSE IF ~rec.editor
    THEN [Answer(rec, route, 500) EXCEPT !.undefinedUse = TRUE]
    ELSE IF ~saved THEN Answer(rec, route, 500)
    ELSE IF returnUrl # None /\ NewUrlThrows(returnUrl[1])
    THEN AnswerSaved(rec, route, 500, id, MetadataOf(parameters), returnUrl)
    ELSE AnswerRedirect(rec, route, id, MetadataOf(parameters), returnUrl)

CanSave == Accepting /\ h5p.saves < MaxSaves
\* Ids the library can give to new content: any id not in use.
FreshIds == ContentIds \ StoredIds(h5p.store)

\* POST /new?returnUrl=...
PostNew ==
    /\ CanSave
    /\ \E library \in BOOLEAN, parameters \in Parameters, returnUrl \in ReturnUrls,
          saved \in BOOLEAN, id \in ContentIds :
          /\ IF saved THEN id \in FreshIds ELSE id = "a"
          /\ h5p' = EditorPost(h5p, "new", id, library, parameters, returnUrl, saved)
    /\ UNCHANGED hostVars

\* POST /edit/{id}?returnUrl=...
PostEdit ==
    /\ CanSave
    /\ \E id \in ContentIds, library \in BOOLEAN, parameters \in Parameters,
          returnUrl \in ReturnUrls, saved \in BOOLEAN :
          h5p' = EditorPost(h5p, "edit", id, library, parameters, returnUrl, saved)
    /\ UNCHANGED hostVars

\* app.post('/api/save') as saveH5PContent calls it, and what the function
\* does with the answer: on success the redirect to the returnUrl (built
\* in the browser by new URL), else an alert.
SaveH5PContent ==
    /\ CanSave
    /\ \E h5pContentId \in Opt(ContentIds), metadata \in Metadatas,
          returnUrl \in ReturnUrls, saved \in BOOLEAN, fresh \in ContentIds :
          LET id == IF h5pContentId = None THEN fresh ELSE h5pContentId[1]
              title == ClientMetadata(metadata)
          IN  /\ IF saved /\ h5pContentId = None THEN fresh \in FreshIds ELSE fresh = "a"
              /\ h5p' =
                    IF ~h5p.editor
                    THEN [Answer(h5p, "api/save", 500) EXCEPT !.undefinedUse = TRUE]
                    ELSE IF ~saved THEN Answer(h5p, "api/save", 500)
                    ELSE IF returnUrl # None /\ NewUrlThrows(returnUrl[1])
                    THEN AnswerSaved(h5p, "api/save", 200, id, title, returnUrl)
                    ELSE AnswerRedirect(h5p, "api/save", id, title, returnUrl)
    /\ UNCHANGED hostVars

\* DELETE /api/content/{id}
DeleteContent ==
    /\ Accepting
    /\ \E id \in ContentIds, deleted \in BOOLEAN :
          /\ id \in StoredIds(h5p.store) \/ ~deleted
          /\ h5p' = [h5p EXCEPT
                        !.store = IF deleted /\ h5p.editor THEN RemoveContent(@, id) ELSE @,
                        !.undefinedUse = @ \/ ~h5p.editor,
                        !.answer = [NoAnswer EXCEPT
                                       !.route = "api/content",
                                       !.status = IF deleted /\ h5p.editor THEN 200 ELSE 500]]
    /\ UNCHANGED hostVars

\* window.location.href = redirectUrl: the browser follows the redirect to
\* the host's callback.
FollowRedirect ==
    /\ h5p.answer.redirect # None
    /\ h5p.answer.redirect[1].to = "returnUrl"
    /\ reqs[2].pc \in Terminal \cup {"idle"}
    /\ reqs' = [reqs EXCEPT ![2] =
                  [IdleReq EXCEPT !.kind = "callback", !.pc = "Received", !.method = "GET",
                                  !.qid = Some(h5p.answer.redirect[1].contentId),
                                  !.qtitle = Some(h5p.answer.redirect[1].title)]]
    /\ resp' = [resp EXCEPT ![2] = NoResp]
    /\ h5p' = [h5p EXCEPT !.answer.redirect = None]
    /\ UNCHANGED <<impl, clock, content, grades>>

EditorInit ==
    /\ impl = "php"
    /\ clock = 1
    /\ content = <<>>
    /\ grades = <<>>
    /\ reqs = [r \in Slots |-> IdleReq]
    /\ resp = [r \in Slots |-> NoResp]
    /\ h5p = H5pBoot

EditorNext ==
    \/ InitH5P
    \/ SetupRoutes
    \/ AddErrorHandlers
    \/ Listen
    \/ PostNew
    \/ PostEdit
    \/ SaveH5PContent
    \/ DeleteContent
    \/ FollowRedirect
    \/ CallbackRegister(2)

EditorSpec == EditorInit /\ [][EditorNext]_vars

\* ================================================================ player
\* xAPI events one player page may raise.
MaxEvents == 2

\* Texts are sequences of characters; a name the code spells out
\* ("demo-user", "anonymous") is one unit of such a text.
Alphabet == {"a", "&", "\\"}
UserTexts ==
    {<<>>} \cup {<<c>> : c \in Alphabet} \cup {<<c, d>> : c, d \in Alphabet}

\* $userId = $_GET['user'] ?? 'demo-user'
UserParam(user) == IF user = None THEN <<"demo-user">> ELSE user[1]
\* htmlspecialchars($userId): & becomes &amp;
HtmlSpecialChars(s) == [k \in 1..Len(s) |-> IF s[k] = "&" THEN "&amp;" ELSE s[k]]
\* The browser reads the src attribute: character references are decoded.
AttributeValue(s) == [k \in 1..Len(s) |-> IF s[k] = "&amp;" THEN "&" ELSE s[k]]
\* req.query.userId of the URL ...?userId=<s>: the text up to the first &
QueryValue(s) ==
    LET cut == {k \in 1..Len(s) : s[k] = "&"}
    IN  IF cut = {} THEN s
        ELSE SubSeq(s, 1, (CHOOSE k \in cut : \A l \in cut : k <= l) - 1)
\* createUser: req.query.userId || req.body?.userId || 'anonymous' (a GET
\* has no body)
CreateUserId(q) == IF q = <<>> THEN <<"anonymous">> ELSE q

\* The value of the JavaScript literal '<s>' in the page's script: a
\* backslash takes the next character with it; a backslash at the end
\* takes the closing quote and leaves the literal unterminated.
RECURSIVE JsSingleQuoted(_)
JsSingleQuoted(s) ==
    IF s = <<>> THEN [ok |-> TRUE, value |-> <<>>]
    ELSE IF s[1] = "\\"
    THEN IF Len(s) = 1 THEN [ok |-> FALSE, value |-> <<>>]
         ELSE LET rest == JsSingleQuoted(SubSeq(s, 3, Len(s)))
              IN  [ok |-> rest.ok, value |-> <<s[2]>> \o rest.value]
    ELSE LET rest == JsSingleQuoted(Tail(s))
         IN  [ok |-> rest.ok, value |-> <<s[1]>> \o rest.value]

\* The H5P server once start() has run, with one content stored.
Started ==
    [H5pBoot EXCEPT !.pc = Len(StartOrder) + 1, !.done = StartOrder,
                    !.listening = TRUE, !.editor = TRUE,
                    !.store = {[id |-> "a", title |-> Some("Quiz A")]}]

\* showPlayer of the host: the page with the iframe
\* <server>/play/<id>?userId=<user>, which the browser then requests.
OpenPlayPage ==
    /\ h5p.page = None
    /\ \E user \in Opt(UserTexts) :
          h5p' = [h5p EXCEPT !.page =
                     Some([stage |-> "frame", contentId |-> "a",
                           user |-> UserParam(user),
                           userId |-> QueryValue(AttributeValue(
                                          HtmlSpecialChars(UserParam(user)))),
                           script |-> FALSE])]
    /\ UNCHANGED hostVars

\* app.get('/play/:contentId'): createUser, h5pPlayer.render, and the page
\* whose script holds the literal '${user.id}'.
GetPlay ==
    /\ Accepting
    /\ h5p.page # None /\ h5p.page[1].stage = "frame"
    /\ \E rendered \in BOOLEAN :
          LET id == JsSingleQuoted(CreateUserId(h5p.page[1].userId))
          IN  h5p' = [h5p EXCEPT !.page =
                         Some([h5p.page[1] EXCEPT
                                 !.stage = IF rendered THEN "page" ELSE "error",
                                 !.userId = id.value,
                                 !.script = rendered /\ id.ok])]
    /\ UNCHANGED hostVars

\* xAPI statements: without a verb (None), with a verb that has no id, or
\* with a verb id, given as the pieces of its text.
VerbWords == {"completed", "answered", "passed", "failed", "attempted"}
Statements ==
    {[verb |-> None], [verb |-> Some([id |-> None])]}
        \cup {[verb |-> Some([id |-> Some(<<"http://adlnet.gov/expapi/verbs/", w>>)])] :
                w \in VerbWords}
\* id.includes(word)
Includes(id, word) == \E k \in 1..Len(id) : id[k] = word
\* only 'completed' is looked for
TrackedCompleted(statement) ==
    /\ statement.verb # None
    /\ statement.verb[1].id # None
    /\ Includes(statement.verb[1].id[1], "completed")
\* statement.verb && (statement.verb.id.includes('completed') || ... );
\* a verb without an id makes the handler throw before it sends anything.
Tracked(statement) ==
    /\ statement.verb # None
    /\ statement.verb[1].id # None
    /\ \E word \in {"completed", "answered", "passed", "failed"} :
          Includes(statement.verb[1].id[1], word)

\* H5P.externalDispatcher.on('xAPI', ...): one fetch, and one message to the
\* parent window when the page is framed.
XApiEvent ==
    /\ h5p.page # None /\ h5p.page[1].stage = "page" /\ h5p.page[1].script
    /\ h5p.events < MaxEvents
    /\ \E statement \in Statements :
          LET n == h5p.events + 1
              post == [event |-> n, contentId |-> h5p.page[1].contentId,
                       userId |-> h5p.page[1].userId, statement |-> statement,
                       state |-> "sent"]
              message == [event |-> n, contentId |-> h5p.page[1].contentId,
                          statement |-> statement]
          IN  h5p' = [h5p EXCEPT
                        !.events = n,
                        !.last = Some(statement),
                        !.posts = IF Tracked(statement) THEN Append(@, post) ELSE @,
                        !.msgs = IF Tracked(statement) THEN Append(@, message) ELSE @]
    /\ UNCHANGED hostVars

\* every failed fetch is sent again
AfterFetchRetry(posts, i, outcome) ==
    IF outcome = "ok" THEN [posts EXCEPT ![i].state = outcome]
    ELSE Append([posts EXCEPT ![i].state = outcome], posts[i])
\* .catch(err => console.error('Failed to send results:', err)): the
\* outcome of the fetch is logged at most; nothing is sent again.
AfterFetch(posts, i, outcome) == [posts EXCEPT ![i].state = outcome]

\* The fetch settles: a 2xx answer, another status, or a network error.
\* Whether the endpoint stored a grade is the endpoint's matter (it can
\* have stored one and the answer be lost).
FetchSettles ==
    /\ \E i \in 1..Len(h5p.posts), outcome \in {"ok", "status", "network"},
          stored \in BOOLEAN :
          /\ h5p.posts[i].state = "sent"
          /\ outcome = "ok" => stored
          /\ h5p' = [h5p EXCEPT
                        !.posts = AfterFetch(@, i, outcome),
                        !.received =
                            IF stored
                            THEN Append(@, [event |-> h5p.posts[i].event,
                                            contentId |-> h5p.posts[i].contentId,
                                            userId |-> h5p.posts[i].userId])
                            ELSE @]
    /\ UNCHANGED hostVars

PlayerInit ==
    /\ impl = "php"
    /\ clock = 1
    /\ content = <<NewContent(<<>>, "a", "Quiz A", 0)>>
    /\ grades = <<>>
    /\ reqs = [r \in Slots |-> IdleReq]
    /\ resp = [r \in Slots |-> NoResp]
    /\ h5p = Started

PlayerNext ==
    \/ OpenPlayPage
    \/ GetPlay
    \/ XApiEvent
    \/ FetchSettles

PlayerSpec == PlayerInit /\ [][PlayerNext]_vars

\* ================================================================ claims
Webhooks == {r \in Slots : reqs[r].kind = "webhook"}
Callbacks == {r \in Slots : reqs[r].kind = "callback"}
\* Request r takes a step.
Steps(r) == reqs'[r] # reqs[r]
\* No request is in flight.
Quiescent == \A r \in Slots : reqs[r].pc \in Terminal \cup {"idle"}
Answered(status) == {r \in Webhooks : resp[r].status = status}
\* The payload is malformed JSON, or JSON without the contentId member.
LacksContentId(body) ==
    body.kind = "malformed" \/ (body.kind = "object" /\ body.contentId = None)

\* C1: once every webhook request has been answered, the grade table holds
\* as many rows as webhook requests were answered 200.
C1_RowsEqualAcknowledged ==
    Quiescent => Len(grades) = Cardinality(Answered(200))

\* C2: a lookup that completes and finds no ContentRecord with the payload's
\* contentId ends the request with 404 {"error":"Content not found"}, and
\* no GradeRecord is created by it.
C2_UnknownContent ==
    [][\A r \in Webhooks :
          (/\ reqs[r].pc = "Validated"
           /\ Steps(r)
           /\ resp'[r] # Unhandled(StorageError)
           /\ Rows(content, reqs[r].body.contentId[1]) = {})
          => /\ resp'[r] = JsonError(404, "Content not found")
             /\ reqs'[r] = Closed("webhook", "Rejected", 0)
             /\ grades' = grades]_vars
C2_Witness ==
    \E r \in Webhooks :
        /\ impl = "php"
        /\ resp[r] = JsonError(404, "Content not found")
        /\ content # <<>>
        /\ grades = <<>>

\* C3: a POST whose body is malformed JSON, or JSON without contentId, is
\* answered 400 {"error":"Invalid payload"} by every implementation, and the
\* grade table is left as it was.
C3_InvalidPayload ==
    [][\A r \in Webhooks :
          (/\ reqs[r].pc = "Received"
           /\ Steps(r)
           /\ reqs[r].method = "POST"
           /\ LacksContentId(reqs[r].body))
          => /\ resp'[r] = JsonError(400, "Invalid payload")
             /\ grades' = grades]_vars

\* C4: every error answer of the webhook carries a JSON error body, and no
\* exception leaves the handler uncaught.
C4_StructuredErrors ==
    \A r \in Webhooks :
        /\ resp[r].status \in {400, 404, 405, 500} => resp[r].kind = "json-error"
        /\ resp[r].kind # "error-page"

\* C5 (as claimed): a webhook request whose method is not POST is answered
\* 405, whatever its body, and the request writes nothing.
C5_MethodNotAllowed ==
    [][\A r \in Webhooks :
          (reqs[r].pc = "Received" /\ Steps(r) /\ reqs[r].method # "POST")
          => /\ resp'[r].status = 405
             /\ content' = content
             /\ grades' = grades]_vars
\* C5 (amended): a webhook request whose method is not POST never reaches
\* the payload checks or the database and writes nothing; it is answered
\* 405, except a CORS preflight on the .NET host, which is answered 204.
C5_OnlyPostHandled ==
    [][\A r \in Webhooks :
          (reqs[r].pc = "Received" /\ Steps(r) /\ reqs[r].method # "POST")
          => /\ resp'[r].status =
                    IF impl = "dotnet" /\ reqs[r].method = "OPTIONS" THEN 204 ELSE 405
             /\ reqs'[r].pc \in Terminal
             /\ content' = content
             /\ grades' = grades]_vars
C5_Witness ==
    /\ impl = "dotnet"
    /\ \E r, o \in Webhooks :
          /\ resp[r] = FrameworkStatus(405) /\ reqs[r].pc = "Rejected"
          /\ resp[o] = FrameworkStatus(204) /\ reqs[o].pc = "Done"

\* C6: a webhook request moves Received, Validated, Resolved, Persisted,
\* Acknowledged in that order or stops, for good, at the first failing step;
\* it is Persisted only with its content resolved; a request that is not a
\* POST gets 405 and a POST without a usable contentId gets 400, whatever
\* later checks it would fail as well.
WebhookEdges ==
    {<<"Received", "Validated">>, <<"Validated", "Resolved">>,
     <<"Resolved", "Persisted">>, <<"Persisted", "Acknowledged">>}
        \cup ({"Received", "Validated", "Resolved", "Persisted"} \X {"Rejected", "Failed"})
C6_StepOrder ==
    [][\A r \in Webhooks :
          Steps(r) =>
            /\ <<reqs[r].pc, reqs'[r].pc>> \in WebhookEdges
            /\ (reqs'[r].pc \in Terminal) = (resp'[r] # NoResp)
            /\ reqs'[r].pc = "Persisted" =>
                  \E i \in Rows(content, reqs[r].body.contentId[1]) :
                      content[i].id = reqs[r].contentRef
            /\ (reqs[r].pc = "Received" /\ reqs[r].method # "POST")
                  => resp'[r].status = 405
            /\ (reqs[r].pc = "Received" /\ reqs[r].method = "POST"
                    /\ LacksContentId(reqs[r].body))
                  => resp'[r].status = 400]_vars

\* C7: a webhook request answered 200 has its row in the grade table; a
\* request whose insert did not take effect is answered 500; an answer, once
\* sent, stays what it is.
HasRow(r) == \E i \in 1..Len(grades) : grades[i].id = reqs[r].rowId
C7_AckAfterInsert ==
    /\ [](\A r \in Webhooks : resp[r].status = 200 => HasRow(r))
    /\ [][\A r \in Webhooks :
            (reqs[r].pc = "Resolved" /\ Steps(r) /\ grades' = grades)
            => (reqs'[r].pc = "Failed" /\ resp'[r].status = 500)]_vars
    /\ [][\A r \in Slots : resp[r] # NoResp => resp'[r] = resp[r]]_vars
C7_Witness ==
    \E r \in Webhooks :
        /\ resp[r].status = 200
        /\ reqs[r].pc = "Acknowledged"
        /\ HasRow(r)

\* C8: no two ContentRecords share an externalContentId; a registration
\* that is applied leaves exactly one record for its id, carrying the
\* registration's title; for a known id no row is added and nothing but
\* that record's title changes.
UniqueExternalIds ==
    \A i, j \in 1..Len(content) : i # j => content[i].h5p_id # content[j].h5p_id
Registers(r) ==
    /\ reqs[r].pc = "Received"
    /\ Steps(r)
    /\ HasContentId(impl, reqs[r].qid)
C8_UniqueExternalId ==
    /\ []UniqueExternalIds
    /\ [][\A r \in Callbacks :
            (Registers(r) /\ resp'[r] = SavedPage) =>
              LET c == reqs[r].qid[1]
                  t == OrElse(reqs[r].qtitle, "Untitled")
              IN  /\ Cardinality(Rows(content', c)) = 1
                  /\ \A i \in Rows(content', c) : content'[i].title = t
                  /\ Rows(content, c) # {} =>
                        /\ Len(content') = Len(content)
                        /\ \A i \in 1..Len(content) :
                              content'[i] = [content[i] EXCEPT
                                  !.title = IF i \in Rows(content, c) THEN t ELSE @]
                  /\ Rows(content, c) = {} =>
                        /\ Len(content') = Len(content) + 1
                        /\ SubSeq(content', 1, Len(content)) = content]_vars
\* The record stored by the earlier run has been renamed by a callback.
C8_Witness ==
    /\ \E r \in Callbacks : reqs[r].pc = "Done"
    /\ Len(content) = 1
    /\ content[1] = [id |-> 1, h5p_id |-> "a", title |-> "Untitled", created_at |-> 0]

\* C9: registrations for one id that are in flight together are applied one
\* after the other, each as one statement: none of them is refused by the
\* UNIQUE constraint, and after each there is exactly one record for the id.
C9_ConcurrentRegistration ==
    [][\A r \in Callbacks :
          (Registers(r) /\ resp'[r] # Unhandled(StorageError)) =>
            /\ resp'[r] = SavedPage
            /\ reqs'[r].pc = "Done"
            /\ Cardinality(Rows(content', reqs[r].qid[1])) = 1]_vars
\* Two callbacks for the unseen id "b" are in flight; the one that arrived
\* second has registered it, the first has yet to run its statement.
C9_Witness ==
    /\ reqs[1].kind = "callback" /\ reqs[1].pc = "Received" /\ reqs[1].qid = Some("b")
    /\ reqs[2].kind = "callback" /\ reqs[2].pc = "Done"
    /\ Cardinality(Rows(content, "b")) = 1

\* C10: every insert adds one row at the end of the grade table, whose id is
\* greater than every id before and whose created_at is not earlier, also
\* when a row with the same values is there already; no step changes or
\* removes a row.
C10_AppendOnly ==
    /\ [](\A i, j \in 1..Len(grades) :
            i < j => /\ grades[i].id < grades[j].id
                     /\ grades[i].created_at <= grades[j].created_at)
    /\ [][\A r \in Webhooks :
            (reqs[r].pc = "Resolved" /\ reqs'[r].pc = "Persisted") =>
              /\ Len(grades') = Len(grades) + 1
              /\ reqs'[r].rowId = grades'[Len(grades')].id]_vars
    /\ [][\A i \in 1..Len(grades) : i <= Len(grades') /\ grades'[i] = grades[i]]_vars
\* Two requests with equal arguments were both answered 200.
C10_Witness ==
    \E r, o \in Answered(200) :
        /\ r # o
        /\ reqs[r].rowId < reqs[o].rowId
        /\ \E i, j \in 1..Len(grades) :
              /\ grades[i].id = reqs[r].rowId
              /\ grades[j].id = reqs[o].rowId
              /\ SameGrade(grades[i], grades[j])

\* C11: webhook deliveries that are handled together and are all answered
\* 200 each have a row of their own: the rows of the grade table have
\* pairwise distinct ids, every acknowledged delivery's row is in the table,
\* and no two acknowledged deliveries share a row, also when they carry the
\* same (content, user) pair.
RowOf(r) == CHOOSE i \in 1..Len(grades) : grades[i].id = reqs[r].rowId
SamePair(g, h) == g.content_id = h.content_id /\ g.user_id = h.user_id
C11_ConcurrentDeliveries ==
    /\ \A i, j \in 1..Len(grades) : i # j => grades[i].id # grades[j].id
    /\ \A r \in Answered(200) : HasRow(r)
    /\ \A r, o \in Answered(200) : r # o => reqs[r].rowId # reqs[o].rowId
    /\ \A r \in Answered(200) :
          Cardinality({i \in 1..Len(grades) : SamePair(grades[i], grades[RowOf(r)])})
              >= Cardinality({o \in Answered(200) :
                                 SamePair(grades[RowOf(o)], grades[RowOf(r)])})
\* The delivery that arrived second inserted first; both were answered 200
\* and their rows carry the same (content, user) pair.
C11_Witness ==
    /\ reqs[1].pc = "Acknowledged" /\ reqs[2].pc = "Acknowledged"
    /\ reqs[2].rowId = 1 /\ reqs[1].rowId = 2
    /\ Len(grades) = 2
    /\ SamePair(grades[1], grades[2])

\* C13: the content_id of every grade row is the id of exactly one content
\* row, and it is the row whose h5p_id is the contentId of the request that
\* inserted the grade.
ContentWithId(id) == {j \in 1..Len(content) : content[j].id = id}
C13_ContentRefResolves ==
    /\ \A i \in 1..Len(grades) : Cardinality(ContentWithId(grades[i].content_id)) = 1
    /\ \A r \in Webhooks :
          reqs[r].pc \in {"Resolved", "Persisted"} =>
              \E j \in Rows(content, reqs[r].body.contentId[1]) :
                  content[j].id = reqs[r].contentRef
    /\ \A r \in Webhooks :
          reqs[r].pc = "Persisted" =>
              /\ HasRow(r)
              /\ grades[RowOf(r)].content_id = reqs[r].contentRef
    /\ \A r \in Answered(200) :
          /\ HasRow(r)
          /\ \E j \in Rows(content, resp[r].contentId) :
                  content[j].id = grades[RowOf(r)].content_id
\* A grade references the record of "b", which was registered in this run
\* beside the stored record of "a".
C13_Witness ==
    /\ Len(content) = 2
    /\ content[2].h5p_id = "b"
    /\ \E r \in Answered(200) :
          /\ resp[r].contentId = "b"
          /\ HasRow(r)
          /\ grades[RowOf(r)].content_id = content[2].id

\* C20: a callback for an id that is registered already changes nothing but
\* the title of that id's record: no row is added or removed, every row
\* keeps its id, h5p_id and created_at, the other rows are unchanged, the
\* grade table is unchanged and every grade references the record it
\* referenced before.
C20_ReRegistration ==
    [][\A r \in Callbacks :
          (Registers(r) /\ Rows(content, reqs[r].qid[1]) # {}) =>
            /\ Len(content') = Len(content)
            /\ \A i \in 1..Len(content) :
                  /\ content'[i].id = content[i].id
                  /\ content'[i].h5p_id = content[i].h5p_id
                  /\ content'[i].created_at = content[i].created_at
                  /\ i \notin Rows(content, reqs[r].qid[1]) => content'[i] = content[i]
            /\ grades' = grades
            /\ \A g \in 1..Len(grades) :
                  \A i \in 1..Len(content) :
                      content[i].id = grades[g].content_id
                          => content'[i].id = grades'[g].content_id]_vars
\* The stored record of "a" has been re-registered, a second later or more,
\* under another title, while a grade references it.
C20_Witness ==
    /\ \E r \in Callbacks : reqs[r].pc = "Done"
    /\ clock > 1
    /\ Len(content) = 1
    /\ content[1] = [id |-> 1, h5p_id |-> "a", title |-> "Untitled", created_at |-> 0]
    /\ Len(grades) = 1
    /\ grades[1].content_id = 1

\* C12: the grade table changes only by the INSERT of a webhook request;
\* the home page, the editor redirects, the callback, the player page and
\* the grades page leave it as it is; whatever changes it leaves every row
\* that was there in place and unchanged.
C12_OnlyWriter ==
    [][/\ grades' # grades =>
             \E r \in Webhooks : reqs[r].pc = "Resolved" /\ reqs'[r].pc = "Persisted"
       /\ \A r \in Slots :
             (Steps(r) /\ "webhook" \notin {reqs[r].kind, reqs'[r].kind}) => grades' = grades
       /\ Len(grades') >= Len(grades)
       /\ SubSeq(grades', 1, Len(grades)) = grades]_vars
\* The grades page has been served after a delivery added a third row for
\* the (content, user) pair of the two stored rows.
C12_Witness ==
    /\ reqs[1].pc = "Acknowledged"
    /\ reqs[2].kind = "grades" /\ reqs[2].pc = "Done"
    /\ Len(grades) = 3
    /\ SamePair(grades[1], grades[3])
    /\ Len(resp[2].rows) = 3

\* C14: for numeric rawScore and maxScore the percentage is rawScore /
\* maxScore when maxScore > 0 and 0 when maxScore is zero or negative, and
\* computing it never raises: the acknowledgement of a persisted delivery is
\* sent with that score, and the grades page lists every row with that
\* quotient as a rounded percentage.
Numeric(raw, max) == raw.t = "num" /\ max.t = "num"
C15_ScoreInUnitInterval ==
    \A r \in Answered(200) :
        /\ resp[r].score.den > 0
        /\ 0 <= resp[r].score.num
        /\ resp[r].score.num <= resp[r].score.den
\* C15 (amended): the score of a 200 acknowledgement is raw / max when
\* max > 0 and 0 otherwise, with raw 0 and max 100 for absent members; it
\* lies between 0 and 1 inclusive when max <= 0 or 0 <= raw <= max, is
\* greater than 1 when raw > max > 0 and negative when raw < 0 < max.
C15_ScoreIsQuotient ==
    [][\A r \in Webhooks :
          (reqs[r].pc = "Persisted" /\ Steps(r) /\ resp'[r].status = 200)
          => LET raw == IF reqs[r].body.raw = None THEN 0 ELSE reqs[r].body.raw[1].v
                 max == IF reqs[r].body.max = None THEN 100 ELSE reqs[r].body.max[1].v
                 num == resp'[r].score.num
                 den == resp'[r].score.den
             IN  /\ den > 0
                 /\ (max <= 0 \/ (0 <= raw /\ raw <= max)) => (0 <= num /\ num <= den)
                 /\ (max > 0 /\ raw > max) => num > den
                 /\ (max > 0 /\ raw < 0) => num < 0
                 /\ max > 0 => num * max = raw * den]_vars
\* A delivery with raw 2 and max 1 has been answered 200 with score 2.
C15_Witness ==
    /\ resp[1].status = 200
    /\ resp[1].score = [num |-> 2, den |-> 1]
    /\ \E i \in 1..Len(grades) :
          /\ grades[i].id = reqs[1].rowId
          /\ grades[i].score = Num(2)
          /\ grades[i].max_score = Num(1)

\* The row a request at Resolved inserts, when its INSERT takes effect.
Inserted(r) == grades'[Len(grades')]
Persists(r) == reqs[r].pc = "Resolved" /\ reqs'[r].pc = "Persisted"
\* The INSERT of request r raised a storage failure.
InsertFailed(r) ==
    reqs[r].pc = "Resolved" /\ reqs'[r].pc = "Failed" /\ resp'[r] = Unhandled(StorageError)
\* The text after the final '/' of a verb id.
AfterFinalSlash(id) == id[Len(id)]
\* The last piece of a verb id that is not empty ("" if there is none).
LastNonEmpty(id) ==
    LET filled == {k \in 1..Len(id) : id[k] # ""}
    IN  IF filled = {} THEN ""
        ELSE id[CHOOSE k \in filled : \A l \in filled : l <= k]

\* C16 (as claimed): the verb stored with a grade is the text after the
\* final '/' of statement.verb.id, for every verb id and implementation,
\* and the empty string when the verb is absent; a request is not turned
\* away for its verb.
C16_VerbLastSegment ==
    [][\A r \in Webhooks :
          (reqs[r].pc = "Resolved" /\ Steps(r)) =>
            /\ Persists(r) \/ InsertFailed(r)
            /\ Persists(r) =>
                  Inserted(r).xapi_verb =
                      IF reqs[r].body.verb = None THEN ""
                      ELSE AfterFinalSlash(reqs[r].body.verb[1])]_vars
\* C16 (amended): the stored verb is the text after the final '/' for every
\* verb id that does not end in '/'; for an id that ends in '/' the PHP host
\* stores the last segment that is not empty; an absent verb is stored as
\* the empty string, and a request is not turned away for its verb.
C16_VerbBasename ==
    [][\A r \in Webhooks :
          (reqs[r].pc = "Resolved" /\ Steps(r)) =>
            /\ Persists(r) \/ InsertFailed(r)
            /\ Persists(r) =>
                  LET verb == reqs[r].body.verb
                      stored == Inserted(r).xapi_verb
                  IN  /\ verb = None => stored = ""
                      /\ (verb # None /\ AfterFinalSlash(verb[1]) # "")
                            => stored = AfterFinalSlash(verb[1])
                      /\ (verb # None /\ AfterFinalSlash(verb[1]) = "" /\ impl = "php")
                            => stored = LastNonEmpty(verb[1])]_vars
\* The PHP host has stored "completed" for the verb id "verbs/completed/".
C16_Witness ==
    /\ impl = "php"
    /\ reqs[1].pc = "Persisted"
    /\ reqs[1].body.verb = Some(<<"verbs", "completed", "">>)
    /\ grades[Len(grades)].id = reqs[1].rowId
    /\ grades[Len(grades)].xapi_verb = "completed"

\* The payload carries a contentId that is registered.
Registered(body) == body.contentId # None /\ Rows(content, body.contentId[1]) # {}
\* Request r failed on the database (connection or statement).
StorageFailed(r) == reqs'[r].pc = "Failed" /\ resp'[r] = Unhandled(StorageError)

\* C17: a delivery for a registered contentId is valid whichever optional
\* members it carries: unless the database fails it is resolved, a row is
\* appended in which each absent member has its default ("anonymous", 0,
\* 100, false, "") and each present member its value, and it is answered
\* 200; with no statement at all the score of the answer is 0.
C17_Defaults ==
    [][\A r \in Webhooks :
          LET body == reqs[r].body
          IN  /\ (reqs[r].pc = "Validated" /\ Steps(r) /\ Registered(body))
                    => (reqs'[r].pc = "Resolved" \/ StorageFailed(r))
              /\ (reqs[r].pc = "Resolved" /\ Steps(r))
                    => \/ StorageFailed(r)
                       \/ /\ Persists(r)
                          /\ Inserted(r).user_id =
                                IF body.userId = None THEN "anonymous" ELSE body.userId[1]
                          /\ Inserted(r).score =
                                IF body.raw = None THEN Num(0) ELSE body.raw[1]
                          /\ Inserted(r).max_score =
                                IF body.max = None THEN Num(100) ELSE body.max[1]
                          /\ Inserted(r).completed =
                                IF body.completion = Some(TRUE) THEN 1 ELSE 0
                          /\ body.verb = None => Inserted(r).xapi_verb = ""
              /\ (reqs[r].pc = "Persisted" /\ Steps(r))
                    => /\ resp'[r].status = 200
                       /\ (body.raw = None /\ body.max = None) => resp'[r].score.num = 0]_vars

\* Grade row g is listed on page p.
ListedOn(p, g) == \E i \in 1..Len(p.rows) : p.rows[i].row = g
\* C18: a well-formed delivery for a registered external id e is resolved to
\* the local id of e's record; the row it appends carries the payload's
\* userId, raw, max and the last segment of its verb; it is answered 200
\* with contentId e and score raw / max; the grades page of a local id lists
\* exactly the grade rows whose content_id is that id.
C18_EndToEnd ==
    [][/\ \A r \in Webhooks :
            LET body == reqs[r].body
            IN  /\ (reqs[r].pc = "Validated" /\ Steps(r) /\ ~StorageFailed(r)
                        /\ Registered(body))
                      => \E j \in Rows(content, body.contentId[1]) :
                            reqs'[r].contentRef = content[j].id
                /\ (Persists(r) /\ body.userId # None /\ body.raw # None
                        /\ body.max # None /\ body.verb # None
                        /\ AfterFinalSlash(body.verb[1]) # "")
                      => /\ Inserted(r).content_id = reqs[r].contentRef
                         /\ Inserted(r).user_id = body.userId[1]
                         /\ Inserted(r).score = body.raw[1]
                         /\ Inserted(r).max_score = body.max[1]
                         /\ Inserted(r).xapi_verb = AfterFinalSlash(body.verb[1])
                /\ (reqs[r].pc = "Persisted" /\ Steps(r) /\ MaxScoreOf(body).v > 0)
                      => /\ resp'[r].status = 200
                         /\ resp'[r].kind = "json-saved"
                         /\ resp'[r].contentId = body.contentId[1]
                         /\ resp'[r].score.num * MaxScoreOf(body).v
                                = RawScoreOf(body).v * resp'[r].score.den
       /\ \A r \in Slots :
            (reqs[r].kind = "grades" /\ Steps(r) /\ reqs'[r].pc = "Done")
              => /\ \A i \in 1..Len(resp'[r].rows) :
                        resp'[r].rows[i].row.content_id = reqs[r].contentRef
                 /\ \A g \in 1..Len(grades) :
                        grades[g].content_id = reqs[r].contentRef
                            => ListedOn(resp'[r], grades[g])
                 /\ Len(resp'[r].rows)
                        = Cardinality({g \in 1..Len(grades) :
                                          grades[g].content_id = reqs[r].contentRef})]_vars

\* C19 (as claimed): on the grades page, of two rows the one appended later
\* (the one with the greater id) is listed before the other.
C19_LatestFirst ==
    \A r \in Slots :
        (reqs[r].kind = "grades" /\ reqs[r].pc = "Done") =>
            \A i, j \in 1..Len(resp[r].rows) :
                i < j => resp[r].rows[i].row.id > resp[r].rows[j].row.id
\* C19 (amended): the grades page lists the rows of a content by created_at,
\* most recent second first: of two rows written in different seconds the
\* one appended later is listed before the other, so the first row carries
\* the greatest created_at; rows written within the same second are listed
\* in no fixed order.
C19_OrderedByCreatedAt ==
    \A r \in Slots :
        (reqs[r].kind = "grades" /\ reqs[r].pc = "Done") =>
            \A i, j \in 1..Len(resp[r].rows) :
                LET g == resp[r].rows[i].row
                    h == resp[r].rows[j].row
                IN  i < j => /\ g.created_at >= h.created_at
                             /\ g.created_at # h.created_at => g.id > h.id
\* The page lists the row a delivery of this run appended before the two
\* rows stored in second 0, and those two with the older one first.
C19_Witness ==
    /\ reqs[2].kind = "grades" /\ reqs[2].pc = "Done"
    /\ Len(resp[2].rows) = 3
    /\ resp[2].rows[1].row.id = 3
    /\ resp[2].rows[2].row.id = 1
    /\ resp[2].rows[3].row.id = 2

\* The title request r registers.
TitleGiven(r) == OrElse(reqs[r].qtitle, "Untitled")
\* Callback r applies its registration in this step.
Applies(r) == Registers(r) /\ resp'[r] = SavedPage

\* C21: the title of a record is the title of the registration for its id
\* that was applied last: a registration that is applied leaves its own
\* title on the record of its id, whatever the title was before and
\* whichever other registrations are in flight, and between registrations
\* for an id the title of its record does not change.
C21_LastWriteWins ==
    [][/\ \A r \in Callbacks :
            Applies(r) =>
                \A i \in Rows(content', reqs[r].qid[1]) : content'[i].title = TitleGiven(r)
       /\ \A i \in 1..Len(content) :
            (i <= Len(content') /\ content'[i].title # content[i].title) =>
                \E r \in Callbacks :
                    /\ Applies(r)
                    /\ reqs[r].qid[1] = content[i].h5p_id
                    /\ content'[i].title = TitleGiven(r)]_vars
\* The stored record of "a", titled "Quiz A", has been renamed "Untitled" by
\* the first callback while a second callback for "a", with the title
\* "Quiz A", is in flight.
C21_Witness ==
    /\ reqs[1].kind = "callback" /\ reqs[1].pc = "Done"
    /\ reqs[2].kind = "callback" /\ reqs[2].pc = "Received"
    /\ reqs[2].qid = Some("a") /\ reqs[2].qtitle = Some("Quiz A")
    /\ Len(content) = 1
    /\ content[1].h5p_id = "a" /\ content[1].title = "Untitled"

\* C22: a callback with a contentId and without a title registers the id
\* under the title "Untitled": if the id is new a record with that title is
\* added, if it is known the title of its record becomes "Untitled"; with a
\* title, the record gets that title.
C22_DefaultTitle ==
    [][\A r \in Callbacks :
          (Registers(r) /\ resp'[r] = SavedPage) =>
            LET c == reqs[r].qid[1]
            IN  /\ Rows(content', c) # {}
                /\ reqs[r].qtitle = None =>
                      \A i \in Rows(content', c) : content'[i].title = "Untitled"
                /\ reqs[r].qtitle # None =>
                      \A i \in Rows(content', c) : content'[i].title = reqs[r].qtitle[1]
                /\ Len(content') = Len(content) + (IF Rows(content, c) = {} THEN 1 ELSE 0)]_vars
\* A callback without a title has added the record of "b" beside the stored
\* record of "a".
C22_Witness ==
    /\ reqs[2].kind = "callback" /\ reqs[2].pc = "Done"
    /\ Len(content) = 2
    /\ content[1].h5p_id = "a" /\ content[1].title = "Quiz A"
    /\ content[2].h5p_id = "b" /\ content[2].title = "Untitled" /\ content[2].created_at > 0

\* C27: a callback whose contentId is absent or empty answers with the
\* "saved" page and leaves the content table and the grade table as they
\* are.
C27_CancelledEditor ==
    [][\A r \in Callbacks :
          (reqs[r].pc = "Received" /\ Steps(r) /\ reqs[r].qid \in {None, Some("")})
          => /\ content' = content
             /\ grades' = grades
             /\ resp'[r] = SavedPage
             /\ reqs'[r].pc = "Done"]_vars
\* A callback has been answered with the "saved" page and the content
\* table is still empty: it carried no contentId.
C27_Witness ==
    /\ reqs[2].kind = "callback" /\ reqs[2].pc = "Done"
    /\ resp[2] = SavedPage
    /\ content = <<>>
    /\ grades = <<>>

\* C28: no operation of the host removes a ContentRecord or changes its
\* externalContentId, and resolution is monotonic: a well-formed POST for a
\* registered id is resolved (unless the database fails), never answered
\* 404, and once resolved and stored it is answered 200.
C28_MonotonicResolution ==
    [][/\ Len(content') >= Len(content)
       /\ \A i \in 1..Len(content) :
            /\ content'[i].id = content[i].id
            /\ content'[i].h5p_id = content[i].h5p_id
       /\ \A r \in Webhooks :
            /\ (reqs[r].pc = "Validated" /\ Steps(r) /\ Registered(reqs[r].body))
                  => /\ resp'[r].status # 404
                     /\ (reqs'[r].pc = "Resolved" \/ StorageFailed(r))
            /\ (reqs[r].pc = "Persisted" /\ Steps(r)) => resp'[r].status = 200]_vars

\* An editor request (POST /new, POST /edit/{id} or a save through
\* /api/save) is answered in this step.
EditorAnswers == h5p'.saves = h5p.saves + 1

C29_ErrorsChangeNothing ==
    [][(EditorAnswers /\ h5p'.answer.route \in {"new", "edit"})
          => /\ h5p'.answer.status \in {400, 500} => h5p'.store = h5p.store
             /\ h5p'.store # h5p.store
                    => (h5p'.answer.status = 200 /\ h5p'.answer.success)]_vars

\* C30: the steps of start() run in the order initH5P, setupRoutes,
\* addErrorHandlers, listen; the server listens only after all of them, no
\* handler runs with h5pEditor or h5pPlayer undefined, and a failure of
\* initH5P or setupRoutes exits the process with code 1, never listening.
C30_StartOrder ==
    LET order == <<"initH5P", "setupRoutes", "addErrorHandlers", "listen">>
    IN  /\ Len(h5p.done) <= Len(order)
        /\ \A k \in 1..Len(h5p.done) : h5p.done[k] = order[k]
        /\ h5p.listening => (h5p.editor /\ h5p.done = order)
        /\ ~h5p.undefinedUse
        /\ h5p.answer # NoAnswer => h5p.editor
        /\ h5p.failed \in {"initH5P", "setupRoutes"}
              => (h5p.exitCode = 1 /\ ~h5p.listening)
\* The server listens after the three steps and has saved content for a
\* request.
C30_Witness ==
    /\ h5p.listening
    /\ h5p.done = <<"initH5P", "setupRoutes", "addErrorHandlers", "listen">>
    /\ h5p.answer.status = 200
    /\ h5p.store # {}

\* POSTs sent, and grades stored by the score endpoint, for event e.
PostsOf(e) == {i \in 1..Len(h5p.posts) : h5p.posts[i].event = e}
StoredOf(e) == {i \in 1..Len(h5p.received) : h5p.received[i].event = e}

\* C23: for each xAPI event raised in the player at most one POST is sent to
\* the score endpoint, also when that POST failed (network error or an
\* answer that is not 2xx), so at most one grade results from one event.
C23_AtMostOnce ==
    /\ \A i \in 1..Len(h5p.posts) : h5p.posts[i].event \in 1..h5p.events
    /\ \A e \in 1..h5p.events :
          /\ Cardinality(PostsOf(e)) <= 1
          /\ Cardinality(StoredOf(e)) <= 1
\* The POST of an event has failed on the network and nothing is in flight.
C23_Witness ==
    /\ h5p.events >= 1
    /\ \E i \in 1..Len(h5p.posts) : h5p.posts[i].state = "network"
    /\ \A i \in 1..Len(h5p.posts) : h5p.posts[i].state # "sent"

\* C25: the player forwards a statement to the score endpoint exactly when
\* the statement has a verb whose id contains "completed", "answered",
\* "passed" or "failed"; a statement without a verb, or with another verb,
\* causes no POST and no message to the parent window.
C25_ForwardedVerbs ==
    [][h5p'.events = h5p.events + 1 =>
          LET statement == h5p'.last[1]
              named == /\ statement.verb # None
                       /\ statement.verb[1].id # None
                       /\ \E k \in 1..Len(statement.verb[1].id[1]) :
                             statement.verb[1].id[1][k]
                                \in {"completed", "answered", "passed", "failed"}
          IN  /\ named => /\ Len(h5p'.posts) = Len(h5p.posts) + 1
                          /\ h5p'.posts[Len(h5p'.posts)].statement = statement
                          /\ h5p'.posts[Len(h5p'.posts)].event = h5p'.events
              /\ ~named => (h5p'.posts = h5p.posts /\ h5p'.msgs = h5p.msgs)]_vars
\* Of two events raised, "passed" was forwarded and "attempted" was not.
C25_Witness ==
    /\ h5p.events = 2
    /\ Len(h5p.posts) = 1
    /\ Len(h5p.msgs) = 1
    /\ h5p.posts[1].event = 1
    /\ h5p.posts[1].statement.verb[1].id[1][2] = "passed"
    /\ h5p.last[1].verb # None
    /\ h5p.last[1].verb[1].id = Some(<<"http://adlnet.gov/expapi/verbs/", "attempted">>)

\* C26: the user identity is carried unchanged from the play page to the
\* grade: every score notification a player page sends, and every grade
\* that results, carries the user the host's play page was opened for
\* ("demo-user" when the page has no user parameter) and the contentId of
\* the played content.
C26_UserCarried ==
    /\ \A i \in 1..Len(h5p.posts) :
          /\ h5p.posts[i].userId = h5p.page[1].user
          /\ h5p.posts[i].contentId = h5p.page[1].contentId
    /\ \A i \in 1..Len(h5p.received) :
          /\ h5p.received[i].userId = h5p.page[1].user
          /\ h5p.received[i].contentId = h5p.page[1].contentId

====
